---------------------------- MODULE Spec2Model ----------------------------
(***************************************************************************)
(* Nasir Store API (src/main.py, src/schemas.py): a FastAPI application    *)
(* over two MongoDB collections, "product" and "order".                    *)
(*                                                                         *)
(* A collection is the sequence of its documents in insertion order, which *)
(* is the order find() and find_one() scan them in.  A document is a       *)
(* record; an Optional value is None (the empty set) or Some(v).  A string *)
(* the code only compares is a TLA+ string; a string the code changes the  *)
(* case of or concatenates (order_code, the demo username) is a sequence   *)
(* of one-character strings; a text the code searches with a regular       *)
(* expression is the sequence of its words.                                *)
(*                                                                         *)
(* Four specifications share the definitions, each a part of the service  *)
(* with the inputs its requests range over:                                *)
(*   Spec          orders and payments: create_order, payment_notify and   *)
(*                 get_order, with the clock that generate_order_code and  *)
(*                 updated_at read;                                        *)
(*   SpecPricing   create_order over every package and payment method;     *)
(*   SpecCatalogue the product reads, list_products and get_product;       *)
(*   SpecSeed      seed_products run by concurrent workers, one database   *)
(*                 call per step.                                          *)
(* In the first three a handler is one atomic step.                        *)
(***************************************************************************)
EXTENDS Integers, Sequences, FiniteSets, TLC

VARIABLES
    product,    \* db["product"]: sequence of product documents
    order,      \* db["order"]: sequence of order documents
    clock,      \* datetime.utcnow(), in seconds from the model's first instant
    seedpc,     \* per worker: where its seed_products call stands
    response    \* the response sent last: the handler, status_code and body

vars == <<product, order, clock, seedpc, response>>

\* ------------------------------------------------------------------ bounds

MaxOrders == 2
MaxClock == 1

\* The threads of the server's pool that may run seed_products at once.
NumWorkers == 2
Workers == 1..NumWorkers

\* ------------------------------------------------------------ basic values

\* Optional[T]: Python's None, or a value
None == {}
Some(v) == {v}
Get(o) == CHOOSE v \in o : TRUE

\* `if s:` on an Optional[str]
Truthy(s) == s # None /\ s # Some("")

\* find_one: the first matching document, or None
First(hits) == IF hits = <<>> THEN None ELSE Some(Head(hits))

Take(s, n) == IF Len(s) <= n THEN s ELSE SubSeq(s, 1, n)

UpperLetters ==
    <<"A","B","C","D","E","F","G","H","I","J","K","L","M",
      "N","O","P","Q","R","S","T","U","V","W","X","Y","Z">>
LowerLetters ==
    <<"a","b","c","d","e","f","g","h","i","j","k","l","m",
      "n","o","p","q","r","s","t","u","v","w","x","y","z">>

LowerChar(c) ==
    IF \E i \in 1..26 : UpperLetters[i] = c
    THEN LowerLetters[CHOOSE i \in 1..26 : UpperLetters[i] = c]
    ELSE c

\* str.lower()
Lower(s) == [i \in 1..Len(s) |-> LowerChar(s[i])]

Digit(n) == <<"0","1","2","3","4","5","6","7","8","9">>[n + 1]

\* an ObjectId is [oid |-> n]; str(ObjectId) is its printed form
ObjectIdStr(id) == <<"oid", id.oid>>

\* ------------------------------------------------------------------ schemas

\* schemas.py: the Literal types of Order
Durations == {"1 Month", "3 Months", "6 Months", "12 Months", "Lifetime"}
PaymentMethods == {"QRIS", "Bank Transfer", "E-Wallet"}
OrderStatuses == {"pending", "paid", "delivered", "failed"}
DeliveryChannels == {"email", "whatsapp", "both"}

\* EmailStr: the addresses of the model that validate
ValidEmails == {"buyer@example.com"}

\* Order(...): Pydantic's validation of the fields create_order passes
OrderSchemaValid(o) ==
    /\ o.package \in Durations
    /\ o.price >= 0
    /\ o.email \in ValidEmails
    /\ o.payment_method \in PaymentMethods
    /\ o.status \in OrderStatuses
    /\ o.delivery_channel \in DeliveryChannels

\* ------------------------------------------------------------- sample data

\* seed_products: the five ProductCreate(...) samples, as model_dump() gives
\* them (a text is the sequence of its words, punctuation dropped)
Samples ==
    << [name |-> <<"Netflix", "Premium">>,
        slug |-> "netflix-premium",
        description |-> <<"Akun", "Netflix", "Premium", "kualitas", "4K",
                          "Garansi", "sesuai", "ketentuan", "Metode", "login",
                          "Shared", "Profile">>,
        short_description |-> <<"Netflix", "4K", "garansi", "hemat">>,
        logo_url |-> Some("https://upload.wikimedia.org/wikipedia/commons/0/08/Netflix_2015_logo.svg"),
        category |-> "Streaming",
        durations |-> <<"1 Month", "3 Months", "12 Months">>,
        login_method |-> "Shared",
        price_monthly |-> 35000,
        price_lifetime |-> None,
        is_featured |-> TRUE,
        is_active |-> TRUE],
       [name |-> <<"Spotify", "Premium">>,
        slug |-> "spotify-premium",
        description |-> <<"Spotify", "Premium", "no", "ads", "kualitas",
                          "tinggi", "Metode", "login", "Invite",
                          "Family/Shared">>,
        short_description |-> <<"Musik", "bebas", "iklan">>,
        logo_url |-> Some("https://upload.wikimedia.org/wikipedia/commons/1/19/Spotify_logo_without_text.svg"),
        category |-> "Music",
        durations |-> <<"1 Month", "3 Months", "12 Months">>,
        login_method |-> "Shared",
        price_monthly |-> 15000,
        price_lifetime |-> None,
        is_featured |-> TRUE,
        is_active |-> TRUE],
       [name |-> <<"Canva", "Pro">>,
        slug |-> "canva-pro",
        description |-> <<"Canva", "Pro", "fitur", "lengkap", "Metode",
                          "login", "Invite", "ke", "team">>,
        short_description |-> <<"Desain", "tanpa", "batas">>,
        logo_url |-> Some("https://upload.wikimedia.org/wikipedia/commons/a/af/Canva_icon_2021.svg"),
        category |-> "Design",
        durations |-> <<"1 Month", "3 Months", "12 Months">>,
        login_method |-> "Invite",
        price_monthly |-> 20000,
        price_lifetime |-> None,
        is_featured |-> TRUE,
        is_active |-> TRUE],
       [name |-> <<"ChatGPT", "Plus">>,
        slug |-> "chatgpt-plus",
        description |-> <<"Akses", "GPT-4/Plus", "sesuai", "ketentuan",
                          "penyedia", "Metode", "Shared">>,
        short_description |-> <<"AI", "asisten", "premium">>,
        logo_url |-> Some("https://upload.wikimedia.org/wikipedia/commons/0/04/ChatGPT_logo.svg"),
        category |-> "AI",
        durations |-> <<"1 Month", "3 Months">>,
        login_method |-> "Shared",
        price_monthly |-> 120000,
        price_lifetime |-> None,
        is_featured |-> FALSE,
        is_active |-> TRUE],
       [name |-> <<"YouTube", "Premium">>,
        slug |-> "youtube-premium",
        description |-> <<"YouTube", "Premium", "bebas", "iklan", "Metode",
                          "Invite", "Family">>,
        short_description |-> <<"Streaming", "tanpa", "iklan">>,
        logo_url |-> Some("https://upload.wikimedia.org/wikipedia/commons/e/ef/Youtube_logo.png"),
        category |-> "Streaming",
        durations |-> <<"1 Month", "3 Months", "12 Months">>,
        login_method |-> "Invite",
        price_monthly |-> 20000,
        price_lifetime |-> None,
        is_featured |-> FALSE,
        is_active |-> TRUE] >>

SampleSlugs == {Samples[i].slug : i \in 1..Len(Samples)}

\* A catalogue the database may hold before the application first runs:
\* main.py has no endpoint that writes a product other than seed_products,
\* so a retired (is_active = False) product, or one with a lifetime price,
\* is one the store's administrator put there.  Both satisfy Product.
Catalogue ==
    << [_id |-> [oid |-> 1],
        name |-> <<"Legacy", "App">>,
        slug |-> "legacy-app",
        description |-> <<"Legacy", "App", "tidak", "dijual", "lagi">>,
        short_description |-> <<"Produk", "lama">>,
        logo_url |-> None,
        category |-> "Productivity",
        durations |-> <<"1 Month", "Lifetime">>,
        login_method |-> "Private",
        price_monthly |-> 50000,
        price_lifetime |-> Some(400000),
        is_featured |-> TRUE,
        is_active |-> FALSE],
       [_id |-> [oid |-> 2],
        name |-> <<"Notion", "Plus">>,
        slug |-> "notion-plus",
        description |-> <<"Notion", "Plus", "workspace", "Metode", "Invite">>,
        short_description |-> <<"Catatan", "premium">>,
        logo_url |-> None,
        category |-> "Productivity",
        durations |-> <<"1 Month", "3 Months", "6 Months", "12 Months">>,
        login_method |-> "Invite",
        price_monthly |-> 45000,
        price_lifetime |-> None,
        is_featured |-> FALSE,
        is_active |-> TRUE] >>

\* -------------------------------------------------------- database driver

\* pymongo insert_one: the document gets a fresh _id and goes last
InsertOne(coll, doc) ==
    Append(coll, [_id |-> [oid |-> Len(coll) + 1]] @@ doc)

InsertedId(coll) == coll[Len(coll)]._id

\* database.create_document(collection_name, data): the model's fields are
\* inserted as one document; the inserted id is returned as a string
create_document(coll, data) == InsertOne(coll, data)

\* pymongo count_documents({})
CountDocuments(coll) == Len(coll)

\* pymongo find_one({"slug": slug}) / find_one({"slug": slug, "is_active": True})
FindBySlug(coll, slug) == First(SelectSeq(coll, LAMBDA d : d.slug = slug))
FindActiveBySlug(coll, slug) ==
    First(SelectSeq(coll, LAMBDA d : d.slug = slug /\ d.is_active = TRUE))

\* pymongo find_one({"order_code": code})
FindByOrderCode(coll, code) ==
    First(SelectSeq(coll, LAMBDA d : d.order_code = Some(code)))

\* pymongo update_one({"_id": id}, {"$set": fields}): the first document with
\* that _id gets the fields, every other document is left as it is
UpdateOne(coll, id, fields) ==
    LET hits  == {i \in 1..Len(coll) : coll[i]._id = id}
        first == CHOOSE i \in hits : \A j \in hits : i <= j
    IN  IF hits = {} THEN coll
        ELSE [coll EXCEPT ![first] = fields @@ coll[first]]

\* to_dict(doc): _id becomes its string
to_dict(doc) == [doc EXCEPT !._id = ObjectIdStr(doc._id)]

\* ------------------------------------------------------------- responses

\* a handler's return value, sent with status 200
Ok(op, body) == [op |-> op, status_code |-> 200, body |-> body]

\* raise HTTPException(status_code=code, detail=detail)
HTTPException(op, code, detail) ==
    [op |-> op, status_code |-> code, body |-> [detail |-> detail]]

\* FastAPI's answer to a query parameter outside its Query(ge=, le=) range
RequestValidationError(op) == HTTPException(op, 422, "Unprocessable Entity")

\* an exception no handler catches (Pydantic's ValidationError raised inside
\* a handler) is answered by the server's 500
InternalServerError(op) == HTTPException(op, 500, "Internal Server Error")

IsError(r) == r.status_code >= 400

\* ---------------------------------------------------- orders and payments

\* create_order: the multiplier table, .get(package) (None when absent)
Multiplier(package) ==
    CASE package = "1 Month"   -> Some(1)
      [] package = "3 Months"  -> Some(3)
      [] package = "6 Months"  -> Some(6)
      [] package = "12 Months" -> Some(12)
      [] package = "Lifetime"  -> Some(20)
      [] OTHER                 -> None

\* product.get("price_monthly", 0)
BasePrice(doc) ==
    IF "price_monthly" \in DOMAIN doc THEN doc.price_monthly ELSE 0

\* create_order with Lifetime priced by the product's price_lifetime when it
\* has one
OrderPriceByLifetime(doc, package) ==
    IF package = "Lifetime" /\ doc.price_lifetime # None
    THEN Get(doc.price_lifetime)
    ELSE BasePrice(doc) * Get(Multiplier(package))

\* price = float(base) * float(multiplier); the prices are whole numbers far
\* below 2^53, where the float product is the integer product
OrderPrice(doc, package) == BasePrice(doc) * Get(Multiplier(package))

\* strftime('%Y%m%d%H%M%S') of the instant t seconds after the model's first
\* instant, 2024-01-01 00:00:00 (t < 60: only the seconds field moves)
StrfTime(t) ==
    <<"2","0","2","4","0","1","0","1","0","0","0","0">>
        \o <<Digit(t \div 10), Digit(t % 10)>>

\* generate_order_code(): f"NS-{utcnow:%Y%m%d%H%M%S}"
generate_order_code(t) == <<"N","S","-">> \o StrfTime(t)

\* create_order: the mock payment instruction table, .get(method, fallback)
FallbackInstruction == [type |-> "info", note |-> "Follow admin instruction"]

PaymentInstructions(method) ==
    CASE method = "QRIS" ->
            [type |-> "qris",
             note |-> "Scan QR berikut di aplikasi e-wallet Anda",
             qr_image |-> "https://api.qrserver.com/v1/create-qr-code/?size=220x220&data=NASIR-STORE-DEMO"]
      [] method = "Bank Transfer" ->
            [type |-> "bank", bank |-> "BCA", account_name |-> "NASIR STORE",
             account_number |-> "1234567890"]
      [] method = "E-Wallet" ->
            [type |-> "ewallet", provider |-> "OVO/DANA/GoPay",
             number |-> "0812-3456-7890", name |-> "NASIR STORE"]
      [] OTHER -> FallbackInstruction

\* create_order: the fields handed to OrderSchema(...); delivery_note and
\* delivered_payload take the schema's defaults
OrderFields(doc, payload, t) ==
    [product_id        |-> ObjectIdStr(doc._id),
     product_name      |-> doc.name,
     package           |-> payload.package,
     price             |-> OrderPrice(doc, payload.package),
     buyer_name        |-> payload.buyer_name,
     email             |-> payload.email,
     whatsapp          |-> payload.whatsapp,
     payment_method    |-> payload.payment_method,
     status            |-> "pending",
     order_code        |-> Some(generate_order_code(t)),
     delivery_channel  |-> payload.delivery_channel,
     delivery_note     |-> None,
     delivered_payload |-> None]

\* create_order: the response of a stored order
OrderCreated(coll, doc, payload, t) ==
    Ok("create_order",
       [order_id     |-> ObjectIdStr(InsertedId(coll)),
        order_code   |-> generate_order_code(t),
        status       |-> "pending",
        amount       |-> OrderPrice(doc, payload.package),
        product_name |-> doc.name,
        package      |-> payload.package,
        payment      |-> PaymentInstructions(payload.payment_method)])

\* POST /api/orders
create_order(payload) ==
    LET found == FindBySlug(product, payload.product_slug)
        doc   == Get(found)
    IN  /\ UNCHANGED <<product, clock, seedpc>>
        /\ IF found = None
           THEN /\ response' = HTTPException("create_order", 404, "Product not found")
                /\ UNCHANGED order
           ELSE IF Multiplier(payload.package) = None
           THEN /\ response' = HTTPException("create_order", 400, "Invalid package")
                /\ UNCHANGED order
           ELSE IF ~OrderSchemaValid(OrderFields(doc, payload, clock))
           THEN /\ response' = InternalServerError("create_order")
                /\ UNCHANGED order
           ELSE /\ Len(order) < MaxOrders
                /\ order' = create_document(order, OrderFields(doc, payload, clock))
                /\ response' = OrderCreated(order', doc, payload, clock)

\* GET /api/orders/{order_code}
get_order(order_code) ==
    LET found == FindByOrderCode(order, order_code)
    IN  /\ response' = IF found = None
                       THEN HTTPException("get_order", 404, "Order not found")
                       ELSE Ok("get_order", to_dict(Get(found)))
        /\ UNCHANGED <<product, order, clock, seedpc>>

\* payment_notify storing the notified status as it came
NotifyStatusAsGiven(status) == status

\* payment_notify: new_status = "paid" if payload.status == "paid" else "failed"
NotifyStatus(status) == IF status = "paid" THEN "paid" ELSE "failed"

\* the demo username without .lower()
DemoUsernameAsGiven(order_code) ==
    <<"d","e","m","o","_">> \o order_code
        \o <<"@","n","a","s","i","r","s","t","o","r","e",".","i","o">>

\* payment_notify: f"demo_{payload.order_code.lower()}@nasirstore.io"
DemoUsername(order_code) ==
    <<"d","e","m","o","_">> \o Lower(order_code)
        \o <<"@","n","a","s","i","r","s","t","o","r","e",".","i","o">>

DeliveryPayload(order_code) ==
    [username |-> DemoUsername(order_code),
     password |-> "AutoGenerated123!",
     note     |-> "Gunakan kredensial ini sesuai ketentuan. Ini demo."]

\* payment_notify writing with update_one(..., upsert=True) on the order code
\* before it answers 404
payment_notify_upsert(payload) ==
    LET found == FindByOrderCode(order, payload.order_code)
        doc   == Get(found)
        set   == [status     |-> NotifyStatus(payload.status),
                  updated_at |-> clock]
    IN  /\ UNCHANGED <<product, clock, seedpc>>
        /\ IF found = None
           THEN /\ order' = InsertOne(order,
                                [order_code |-> Some(payload.order_code)] @@ set)
                /\ response' = HTTPException("payment_notify", 404, "Order not found")
           ELSE /\ order' = UpdateOne(order, doc._id, set)
                /\ response' = Ok("payment_notify",
                                  [updated |-> TRUE,
                                   status  |-> NotifyStatus(payload.status)])

\* POST /api/payments/notify
payment_notify(payload) ==
    LET found == FindByOrderCode(order, payload.order_code)
        doc   == Get(found)
    IN  /\ UNCHANGED <<product, clock, seedpc>>
        /\ IF found = None
           THEN /\ response' = HTTPException("payment_notify", 404, "Order not found")
                /\ UNCHANGED order
           ELSE IF NotifyStatus(payload.status) = "paid"
           THEN /\ order' = UpdateOne(order, doc._id,
                                [status            |-> "delivered",
                                 delivered_payload |-> Some(DeliveryPayload(payload.order_code)),
                                 updated_at        |-> clock])
                /\ response' = Ok("payment_notify",
                                  [updated |-> TRUE, status |-> "delivered",
                                   delivered_payload |-> DeliveryPayload(payload.order_code)])
           ELSE /\ order' = UpdateOne(order, doc._id,
                                [status     |-> NotifyStatus(payload.status),
                                 updated_at |-> clock])
                /\ response' = Ok("payment_notify",
                                  [updated |-> TRUE,
                                   status  |-> NotifyStatus(payload.status)])

\* datetime.utcnow() moves on by a second
Tick ==
    /\ clock < MaxClock
    /\ clock' = clock + 1
    /\ UNCHANGED <<product, order, seedpc, response>>

\* ---------------------------------------------------------------- products

\* list_products: limit: int = Query(100, ge=1, le=200)
LimitMin == 1
LimitMax == 200

\* "$options": "i": the lower-case form of a word of the catalogue's texts or
\* of a query
CaseFold(w) ==
    CASE w = "Netflix"   -> "netflix"
      [] w = "Premium"   -> "premium"
      [] w = "Akun"      -> "akun"
      [] w = "4K"        -> "4k"
      [] w = "Garansi"   -> "garansi"
      [] w = "Metode"    -> "metode"
      [] w = "Shared"    -> "shared"
      [] w = "Profile"   -> "profile"
      [] w = "Spotify"   -> "spotify"
      [] w = "Invite"    -> "invite"
      [] w = "Family/Shared" -> "family/shared"
      [] w = "Family"    -> "family"
      [] w = "Musik"     -> "musik"
      [] w = "Canva"     -> "canva"
      [] w = "Pro"       -> "pro"
      [] w = "Desain"    -> "desain"
      [] w = "ChatGPT"   -> "chatgpt"
      [] w = "Plus"      -> "plus"
      [] w = "Akses"     -> "akses"
      [] w = "GPT-4/Plus" -> "gpt-4/plus"
      [] w = "AI"        -> "ai"
      [] w = "YouTube"   -> "youtube"
      [] w = "Streaming" -> "streaming"
      [] w = "Legacy"    -> "legacy"
      [] w = "App"       -> "app"
      [] w = "Produk"    -> "produk"
      [] w = "Notion"    -> "notion"
      [] w = "Catatan"   -> "catatan"
      [] w = "IKLAN"     -> "iklan"
      [] OTHER           -> w

\* {"$regex": q, "$options": "i"} on a text, for a query that is one word
RegexSearch(text, q) ==
    \E i \in 1..Len(text) : CaseFold(text[i]) = CaseFold(q)

\* list_products without "is_active": True in its filter
ProductFilterAnyActivity(d, q, category, featured) ==
    /\ (Truthy(category) => d.category = Get(category))
    /\ (featured # None => d.is_featured = Get(featured))
    /\ (Truthy(q) => \/ RegexSearch(d.name, Get(q))
                     \/ RegexSearch(d.description, Get(q))
                     \/ RegexSearch(d.short_description, Get(q)))

\* list_products: the filter handed to find()
ProductFilter(d, q, category, featured) ==
    /\ d.is_active = TRUE
    /\ (Truthy(category) => d.category = Get(category))
    /\ (featured # None => d.is_featured = Get(featured))
    /\ (Truthy(q) => \/ RegexSearch(d.name, Get(q))
                     \/ RegexSearch(d.description, Get(q))
                     \/ RegexSearch(d.short_description, Get(q)))

\* find(filt).limit(limit)
FindLimit(coll, q, category, featured, limit) ==
    Take(SelectSeq(coll, LAMBDA d : ProductFilter(d, q, category, featured)), limit)

\* GET /api/products; the JSON array it returns is the body's items
list_products(q, category, featured, limit) ==
    /\ response' = IF limit < LimitMin \/ limit > LimitMax
                   THEN RequestValidationError("list_products")
                   ELSE LET docs == FindLimit(product, q, category, featured, limit)
                        IN  Ok("list_products",
                               [items |-> [i \in 1..Len(docs) |-> to_dict(docs[i])]])
    /\ UNCHANGED <<product, order, clock, seedpc>>

\* GET /api/products/{slug}
get_product(slug) ==
    LET found == FindActiveBySlug(product, slug)
    IN  /\ response' = IF found = None
                       THEN HTTPException("get_product", 404, "Product not found")
                       ELSE Ok("get_product", to_dict(Get(found)))
        /\ UNCHANGED <<product, order, clock, seedpc>>

\* seed_products: for p in samples[k..]: create_document("product", p)
RECURSIVE InsertSamples(_, _)
InsertSamples(coll, k) ==
    IF k > Len(Samples) THEN coll
    ELSE InsertSamples(create_document(coll, Samples[k]), k + 1)

AlreadySeeded ==
    Ok("seed_products", [seeded |-> FALSE, message |-> "Products already exist"])
Seeded == Ok("seed_products", [seeded |-> TRUE, count |-> Len(Samples)])

\* POST /api/seed, run from its first line to its return with no other
\* request in between
seed_products ==
    /\ \A w \in Workers : seedpc[w] = 0
    /\ IF CountDocuments(product) > 0
       THEN /\ response' = AlreadySeeded
            /\ UNCHANGED product
       ELSE /\ product' = InsertSamples(product, 1)
            /\ response' = Seeded
    /\ UNCHANGED <<order, clock, seedpc>>

\* POST /api/seed on worker w, one database call at a time.  seedpc[w] is 0
\* when w runs no call, k in 1..5 when its next call inserts samples[k], and
\* 6 when the loop is over and the return is left.

\* count = db["product"].count_documents({}); if count > 0: return ...
SeedCount(w) ==
    /\ seedpc[w] = 0
    /\ IF CountDocuments(product) > 0
       THEN /\ response' = AlreadySeeded
            /\ UNCHANGED seedpc
       ELSE /\ seedpc' = [seedpc EXCEPT ![w] = 1]
            /\ UNCHANGED response
    /\ UNCHANGED <<product, order, clock>>

\* create_document("product", p) for the next p of samples
SeedInsert(w) ==
    /\ seedpc[w] \in 1..Len(Samples)
    /\ product' = create_document(product, Samples[seedpc[w]])
    /\ seedpc' = [seedpc EXCEPT ![w] = @ + 1]
    /\ UNCHANGED <<order, clock, response>>

\* return {"seeded": True, "count": len(samples)}
SeedReturn(w) ==
    /\ seedpc[w] = Len(Samples) + 1
    /\ response' = Seeded
    /\ seedpc' = [seedpc EXCEPT ![w] = 0]
    /\ UNCHANGED <<product, order, clock>>

\* ------------------------------------------------------------------ inputs

SlugInputs == {"netflix-premium", "legacy-app", "notion-plus", "no-such-app"}
OrderSlugInputs == {"netflix-premium", "legacy-app", "no-such-app"}
PackageInputs == Durations \cup {"2 Weeks"}
PaymentMethodInputs == PaymentMethods \cup {"Crypto"}

\* POST /api/orders bodies: every package and payment method
OrderCreatePayloads ==
    [product_slug     : OrderSlugInputs,
     package          : PackageInputs,
     buyer_name       : {"Budi"},
     email            : {"buyer@example.com"},
     whatsapp         : {"081234567890"},
     payment_method   : PaymentMethodInputs,
     delivery_channel : {"whatsapp"}]

\* POST /api/orders bodies of the orders that payments are notified for: a
\* good and a bad value of the slug, the package, the payment method and the
\* delivery channel
CheckoutPayloads ==
    [product_slug     : {"netflix-premium", "no-such-app"},
     package          : {"Lifetime", "2 Weeks"},
     buyer_name       : {"Budi"},
     email            : {"buyer@example.com"},
     whatsapp         : {"081234567890"},
     payment_method   : {"QRIS", "Crypto"},
     delivery_channel : {"both", "sms"}]

\* the codes generate_order_code can give, and their lower-case forms, which
\* no stored order carries
OrderCodeInputs ==
    {generate_order_code(t) : t \in 0..MaxClock}
        \cup {Lower(generate_order_code(t)) : t \in 0..MaxClock}

PaymentNotifyPayloads ==
    [order_code : OrderCodeInputs, status : {"paid", "failed", "refunded"}]

QueryInputs == {None, Some(""), Some("IKLAN")}
CategoryInputs == {None, Some(""), Some("Streaming"), Some("Productivity")}
FeaturedInputs == {None, Some(TRUE), Some(FALSE)}
LimitInputs == {LimitMin - 1, LimitMin, LimitMax, LimitMax + 1}

\* ---------------------------------------------------------- specifications

Init ==
    /\ product \in {<<>>, Catalogue}
    /\ order = <<>>
    /\ clock = 0
    /\ seedpc = [w \in Workers |-> 0]
    /\ response = Ok("read_root", [message |-> "Nasir Store Backend Running"])

Next ==
    \/ seed_products
    \/ \E payload \in CheckoutPayloads : create_order(payload)
    \/ \E code \in OrderCodeInputs : get_order(code)
    \/ \E payload \in PaymentNotifyPayloads : payment_notify(payload)
    \/ \E slug \in SlugInputs : get_product(slug)
    \/ Tick

Spec == Init /\ [][Next]_vars

NextPricing ==
    \/ seed_products
    \/ \E payload \in OrderCreatePayloads : create_order(payload)

SpecPricing == Init /\ [][NextPricing]_vars

\* no seed_products call runs on another worker than w
Alone(w) == \A v \in Workers \ {w} : seedpc[v] = 0

\* the product reads, also between the database calls of a seed_products
\* call (one such call at a time)
NextCatalogue ==
    \/ \E w \in Workers :
          Alone(w) /\ (SeedCount(w) \/ SeedInsert(w) \/ SeedReturn(w))
    \/ \E q \in QueryInputs, category \in CategoryInputs,
          featured \in FeaturedInputs, limit \in LimitInputs :
            list_products(q, category, featured, limit)
    \/ \E slug \in SlugInputs : get_product(slug)

SpecCatalogue == Init /\ [][NextCatalogue]_vars

InitSeed == Init /\ product = <<>>

NextSeed ==
    \E w \in Workers : SeedCount(w) \/ SeedInsert(w) \/ SeedReturn(w)

SpecSeed == InitSeed /\ [][NextSeed]_vars

\* -------------------------------------------------------------------- claims

IsCreated(r) == r.op = "create_order" /\ r.status_code = 200

\* the multiplier of each package, as the claim C1 lists them
ListedMultiplier(package) ==
    CASE package = "1 Month"   -> 1
      [] package = "3 Months"  -> 3
      [] package = "6 Months"  -> 6
      [] package = "12 Months" -> 12
      [] package = "Lifetime"  -> 20

\* C1: a create_order that succeeds, for a product stored under the requested
\* slug and any of the five packages, appends exactly one order to the order
\* collection and changes nothing else; the new order is "pending", carries
\* the requested package and costs the product's price_monthly times the
\* listed multiplier (price_lifetime plays no part); the response's amount is
\* that stored price and its status is "pending".
C1_CreateOrderPrice ==
    [][IsCreated(response') =>
        \A payload \in OrderCreatePayloads :
            create_order(payload) =>
                LET doc == Get(FindBySlug(product, payload.product_slug))
                    new == order'[Len(order')]
                IN  /\ FindBySlug(product, payload.product_slug) # None
                    /\ payload.package \in Durations
                    /\ Len(order') = Len(order) + 1
                    /\ SubSeq(order', 1, Len(order)) = order
                    /\ product' = product
                    /\ new.status = "pending"
                    /\ new.package = payload.package
                    /\ new.product_id = ObjectIdStr(doc._id)
                    /\ new.price = doc.price_monthly * ListedMultiplier(payload.package)
                    /\ response'.body.amount = new.price
                    /\ response'.body.status = "pending"]_vars

\* C1 witness: a Lifetime order of the product that has a price_lifetime of
\* 400000 is stored and answered at 20 times its price_monthly of 50000.
C1_Witness ==
    /\ IsCreated(response)
    /\ response.body.amount = 1000000
    /\ response.body.package = "Lifetime"
    /\ \E i \in 1..Len(order) :
          /\ order[i].package = "Lifetime"
          /\ order[i].price = 1000000
          /\ order[i].status = "pending"
          /\ \E j \in 1..Len(product) :
                /\ ObjectIdStr(product[j]._id) = order[i].product_id
                /\ product[j].price_lifetime = Some(400000)

\* the demo username the claim C2 gives for an order code "NS-<digits>"
ListedUsername(order_code) ==
    <<"d","e","m","o","_","n","s","-">> \o SubSeq(order_code, 4, Len(order_code))
        \o <<"@","n","a","s","i","r","s","t","o","r","e",".","i","o">>

Position(coll, code) ==
    CHOOSE i \in 1..Len(coll) :
        /\ coll[i].order_code = Some(code)
        /\ \A j \in 1..(i - 1) : coll[j].order_code # Some(code)

NotifiedFields == {"status", "delivered_payload", "updated_at"}

\* what the claim C2 asks of a step that answers the notification `payload`
\* for the stored order at position i
NotifiedAsListed(payload, i) ==
    LET old == order[i]
        new == order'[i]
    IN  /\ Len(order') = Len(order)
        /\ \A j \in 1..Len(order) : j # i => order'[j] = order[j]
        /\ product' = product
        /\ DOMAIN new = DOMAIN old \cup {"updated_at"}
        /\ \A f \in DOMAIN old \ NotifiedFields : new[f] = old[f]
        /\ IF payload.status = "paid"
           THEN /\ new.status = "delivered"
                /\ new.delivered_payload # None
                /\ Get(new.delivered_payload).username
                      = ListedUsername(payload.order_code)
           ELSE new.status = "failed"

\* C2: a payment_notify on an order code that a stored order carries changes
\* one order, the first that carries the code: notified "paid", its status
\* becomes "delivered" and its delivered_payload the demo credentials with
\* the username "demo_<code in lower case>@nasirstore.io"; notified anything
\* else, its status becomes "failed".  Its other fields, every other order and
\* every product stay as they were.
C2_PaymentNotifyFrame ==
    [][response'.op = "payment_notify" =>
        \A payload \in PaymentNotifyPayloads :
            \/ \A i \in 1..Len(order) : order[i].order_code # Some(payload.order_code)
            \/ NotifiedAsListed(payload, Position(order, payload.order_code))
            \/ ~payment_notify(payload)]_vars

\* C2 witness: of two orders with the same order code the first has been
\* delivered with the demo credentials and the second is still pending.
C2_Witness ==
    /\ Len(order) >= 2
    /\ order[1].order_code = order[2].order_code
    /\ order[1].status = "delivered"
    /\ order[1].delivered_payload # None
    /\ order[2].status = "pending"
    /\ response.op = "payment_notify"
    /\ response.status_code = 200
    /\ response.body.status = "delivered"

\* C3: a request answered with an HTTP error leaves both collections as they
\* were, and the error is the listed one: create_order answers 404 "Product
\* not found" to an unknown slug and 400 "Invalid package" to a package
\* outside the table, payment_notify and get_order answer 404 "Order not
\* found" to an unknown order code, get_product answers 404 to a slug no
\* active product has.
C3_ErrorsLeaveDatabase ==
    [][/\ IsError(response') => (product' = product /\ order' = order)
       /\ response'.op = "create_order" => \A payload \in CheckoutPayloads :
            \/ IF FindBySlug(product, payload.product_slug) = None
               THEN response' = HTTPException("create_order", 404, "Product not found")
               ELSE payload.package \notin Durations =>
                       response' = HTTPException("create_order", 400, "Invalid package")
            \/ ~create_order(payload)
       /\ response'.op = "payment_notify" => \A payload \in PaymentNotifyPayloads :
            \/ (\A i \in 1..Len(order) : order[i].order_code # Some(payload.order_code))
                  => response' = HTTPException("payment_notify", 404, "Order not found")
            \/ ~payment_notify(payload)
       /\ response'.op = "get_order" => \A code \in OrderCodeInputs :
            \/ (\A i \in 1..Len(order) : order[i].order_code # Some(code))
                  => response' = HTTPException("get_order", 404, "Order not found")
            \/ ~get_order(code)
       /\ response'.op = "get_product" => \A slug \in SlugInputs :
            \/ (\A i \in 1..Len(product) :
                    ~(product[i].slug = slug /\ product[i].is_active))
                  => response' = HTTPException("get_product", 404, "Product not found")
            \/ ~get_product(slug)
      ]_vars

\* C3 witness: with a product and an order stored, a request has just been
\* answered 400 "Invalid package".
C3_Witness ==
    /\ Len(order) >= 1
    /\ Len(product) >= 1
    /\ response = HTTPException("create_order", 400, "Invalid package")

\* C4: with the product collection empty at the start, once no seed_products
\* call is running the collection is empty or holds exactly the five samples,
\* each slug once.
C4_SeedOnlyIfEmpty ==
    (\A w \in Workers : seedpc[w] = 0) =>
        \/ product = <<>>
        \/ /\ Len(product) = Len(Samples)
           /\ \A slug \in SampleSlugs :
                Cardinality({i \in 1..Len(product) : product[i].slug = slug}) = 1

\* what the claim C5 asks of a list_products response to the given query
ListedAsAsked(r, category, featured, limit) ==
    IF limit >= 1 /\ limit <= 200
    THEN /\ r.status_code = 200
         /\ Len(r.body.items) <= limit
         /\ \A i \in 1..Len(r.body.items) :
              /\ (category \notin {None, Some("")} =>
                    r.body.items[i].category = Get(category))
              /\ (featured # None => r.body.items[i].is_featured = Get(featured))
    ELSE r.status_code = 422

\* C5: list_products answers a limit outside 1..200 with 422 and otherwise
\* returns at most `limit` stored products, each active, each of the given
\* category when a category is given and of the given is_featured when one is
\* given; get_product returns the product when an active product with the
\* slug is stored and answers 404 otherwise.
C5_ActiveProductsOnly ==
    [][/\ response'.op = "list_products" =>
          /\ response'.status_code = 200 =>
                \A i \in 1..Len(response'.body.items) :
                    /\ response'.body.items[i].is_active = TRUE
                    /\ \E j \in 1..Len(product) :
                          to_dict(product[j]) = response'.body.items[i]
          /\ \A q \in QueryInputs, category \in CategoryInputs,
                featured \in FeaturedInputs, limit \in LimitInputs :
                \/ ListedAsAsked(response', category, featured, limit)
                \/ ~list_products(q, category, featured, limit)
       /\ response'.op = "get_product" => \A slug \in SlugInputs :
            get_product(slug) =>
                IF \E j \in 1..Len(product) :
                      product[j].slug = slug /\ product[j].is_active = TRUE
                THEN /\ response'.status_code = 200
                     /\ response'.body.slug = slug
                     /\ response'.body.is_active = TRUE
                     /\ \E j \in 1..Len(product) : to_dict(product[j]) = response'.body
                ELSE response'.status_code = 404
      ]_vars

\* C5 witness: with a retired product stored, list_products has returned
\* products and none of them is the retired one.
C5_Witness ==
    /\ \E j \in 1..Len(product) : product[j].is_active = FALSE
    /\ response.op = "list_products"
    /\ response.status_code = 200
    /\ Len(response.body.items) >= 1
    /\ \A i \in 1..Len(response.body.items) :
          response.body.items[i].slug # "legacy-app"

\* C6: every stored order satisfies the field constraints of the Order
\* schema: status, package, payment_method and delivery_channel are values
\* of their Literal types and price >= 0.
C6_StoredOrdersValid ==
    \A i \in 1..Len(order) :
        /\ order[i].status \in {"pending", "paid", "delivered", "failed"}
        /\ order[i].package
              \in {"1 Month", "3 Months", "6 Months", "12 Months", "Lifetime"}
        /\ order[i].payment_method \in {"QRIS", "Bank Transfer", "E-Wallet"}
        /\ order[i].delivery_channel \in {"email", "whatsapp", "both"}
        /\ order[i].price >= 0

\* C6 witness: an order has been notified with a status other than "paid"
\* and another has been delivered.
C6_Witness ==
    /\ \E i \in 1..Len(order) :
          order[i].status = "failed" /\ "updated_at" \in DOMAIN order[i]
    /\ \E i \in 1..Len(order) : order[i].status = "delivered"

\* C7: create_order for a stored product, a package of the table and a
\* payment method other than "QRIS", "Bank Transfer" and "E-Wallet" succeeds
\* and returns the fallback payment instruction.
C7_FallbackInstruction ==
    [][\A payload \in OrderCreatePayloads :
        ( /\ create_order(payload)
          /\ FindBySlug(product, payload.product_slug) # None
          /\ payload.package \in Durations
          /\ payload.payment_method \notin {"QRIS", "Bank Transfer", "E-Wallet"} ) =>
            /\ response'.status_code = 200
            /\ response'.body.payment =
                  [type |-> "info", note |-> "Follow admin instruction"]]_vars

====
